---- MODULE Spec2Model ----
(***************************************************************************)
(* qr-base45: the Base45 (RFC 9285) encoder and decoder of src/lib.rs.     *)
(*                                                                         *)
(* A byte is a number in 0..255.  A text (&str / String) is a sequence of  *)
(* characters, each character being the sequence of its UTF-8 bytes, so    *)
(* that s.as_bytes() is the concatenation of the characters of s.          *)
(* Rust indices are 0-based: the code's bytes[i] is bytes[i + 1] here.     *)
(***************************************************************************)
EXTENDS Integers, Sequences, FiniteSets, TLC

VARIABLES
    caller,   \* which caller runs: "roundtrip", "decode" or "lookup"
    input,    \* the byte slice given to encode
    encoded,  \* the String encode returned
    s,        \* the text given to decode
    decoded,  \* the Result decode returned
    lookup_ch,       \* the byte given to b45_val
    val,      \* the Option b45_val returned
    pc        \* the call the caller makes next

vars == <<caller, input, encoded, s, decoded, lookup_ch, val, pc>>

(***************************************************************************)
(* Bounds of the model.                                                    *)
(***************************************************************************)
\* longest sampled byte sequence given to encode
MaxBytes == 5
\* longest sampled text (in characters) given to decode
MaxChars == 7

(***************************************************************************)
(* Integer widths.                                                         *)
(***************************************************************************)
U8 == 256
U16 == 65536

(***************************************************************************)
(* Base45Error, Result and Option.                                         *)
(***************************************************************************)
Base45Error == {"InvalidChar", "Dangling", "Overflow"}

Ok(v) == [tag |-> "Ok", val |-> v]

Err(e) == [tag |-> "Err", err |-> e]

\* Option<u16>: Some(v) is <<v>>, None is the empty sequence
Some(v) == <<v>>

None == <<>>

(***************************************************************************)
(* The alphabet table: b"0123456789ABCDEFGHIJKLMNOPQRSTUVWXYZ $%*+-./:"    *)
(***************************************************************************)
BASE45_ALPHABET ==
    << 48, 49, 50, 51, 52, 53, 54, 55, 56, 57,
       65, 66, 67, 68, 69, 70, 71, 72, 73, 74, 75, 76, 77,
       78, 79, 80, 81, 82, 83, 84, 85, 86, 87, 88, 89, 90,
       32, 36, 37, 42, 43, 45, 46, 47, 58 >>

\* b45_val accepting lower-case letters as their upper-case ones
b45_val_lower(ch) ==
    CASE ch >= 48 /\ ch <= 57 -> Some((ch - 48) % U16)
      [] ch >= 65 /\ ch <= 90 -> Some((10 + ((ch - 65) % U16)) % U16)
      [] ch >= 97 /\ ch <= 122 -> Some((10 + ((ch - 97) % U16)) % U16)
      [] ch = 32 -> Some(36)
      [] ch = 36 -> Some(37)
      [] ch = 37 -> Some(38)
      [] ch = 42 -> Some(39)
      [] ch = 43 -> Some(40)
      [] ch = 45 -> Some(41)
      [] ch = 46 -> Some(42)
      [] ch = 47 -> Some(43)
      [] ch = 58 -> Some(44)
      [] OTHER -> None

\* The match of b45_val, arm by arm.
b45_val(ch) ==
    CASE ch >= 48 /\ ch <= 57 -> Some((ch - 48) % U16)
      [] ch >= 65 /\ ch <= 90 -> Some((10 + ((ch - 65) % U16)) % U16)
      [] ch = 32 -> Some(36)
      [] ch = 36 -> Some(37)
      [] ch = 37 -> Some(38)
      [] ch = 42 -> Some(39)
      [] ch = 43 -> Some(40)
      [] ch = 45 -> Some(41)
      [] ch = 46 -> Some(42)
      [] ch = 47 -> Some(43)
      [] ch = 58 -> Some(44)
      [] OTHER -> None

(***************************************************************************)
(* Texts.                                                                  *)
(***************************************************************************)
\* `u as char` pushed on a String: the UTF-8 bytes of the code point u < 256
AsChar(u) ==
    IF u < 128 THEN <<u>> ELSE <<192 + (u \div 64), 128 + (u % 64)>>

RECURSIVE as_bytes(_)
\* str::as_bytes: the UTF-8 bytes of the text, character after character
as_bytes(t) ==
    IF t = <<>> THEN <<>> ELSE Head(t) \o as_bytes(Tail(t))

(***************************************************************************)
(* encode                                                                  *)
(***************************************************************************)
\* the pair value with the product taken in 8 bits, before the widening
PairValue_u8(hi, lo) == ((((hi * 256) % U8) % U16) + (lo % U16)) % U16

\* let x = (input[i] as u16) * 256 + (input[i + 1] as u16), in 16 bits
PairValue(hi, lo) == ((((hi % U16) * 256) % U16) + (lo % U16)) % U16

\* the digits of a byte pair, most significant first
PairDigits_msd(hi, lo) ==
    LET x0 == PairValue(hi, lo)
        c == x0 % 45
        x1 == x0 \div 45
        b == x1 % 45
        a == x1 \div 45
    IN <<a, b, c>>

\* the digits <<c, b, a>> of a byte pair, least significant first
PairDigits(hi, lo) ==
    LET x0 == PairValue(hi, lo)
        c == x0 % 45
        x1 == x0 \div 45
        b == x1 % 45
        a == x1 \div 45
    IN <<c, b, a>>

\* the digits <<b, a>> of a trailing single byte
ByteDigits(u) ==
    LET x == u % U16
        b == x % 45
        a == x \div 45
    IN <<b, a>>

\* out.push(BASE45_ALPHABET[d as usize] as char)
PushDigit(out, d) == Append(out, AsChar(BASE45_ALPHABET[d + 1]))

RECURSIVE encode_loop(_, _, _)
\* the while loop of encode; yields <<i, out>> at its exit
encode_loop(in, i, out) ==
    IF i + 1 < Len(in)
    THEN LET d == PairDigits(in[i + 1], in[i + 2])
         IN encode_loop(in, i + 2,
                        PushDigit(PushDigit(PushDigit(out, d[1]), d[2]), d[3]))
    ELSE <<i, out>>

\* encode without the trailing single byte
encode_pairs_only(in) == encode_loop(in, 0, <<>>)[2]


encode(in) ==
    LET r == encode_loop(in, 0, <<>>)
        i == r[1]
        out == r[2]
    IN IF i < Len(in)
       THEN LET d == ByteDigits(in[i + 1])
            IN PushDigit(PushDigit(out, d[1]), d[2])
       ELSE out

(***************************************************************************)
(* decode                                                                  *)
(***************************************************************************)
\* let x: u32 = c2 * 45 * 45 + c1 * 45 + c0.  The operands are u16 values
\* widened to u32 (`as u32`), so no product or sum reaches 2^32 and the 32-bit
\* arithmetic is the integers' (65535 * 45 * 45 + 65535 * 45 + 65535 < 2^32).
TripleValue(c0, c1, c2) == c2 * 45 * 45 + c1 * 45 + c0

\* let x: u32 = c1 * 45 + c0, in 32 bits as above
TailValue(c0, c1) == c1 * 45 + c0

\* `x as u8`: the low eight bits
AsU8(x) == x % U8

\* decode_triple emitting the low byte first
decode_triple_le(bytes, i) ==
    LET v0 == b45_val(bytes[i + 1])
        v1 == b45_val(bytes[i + 2])
        v2 == b45_val(bytes[i + 3])
    IN IF v0 = None THEN Err("InvalidChar")
       ELSE IF v1 = None THEN Err("InvalidChar")
       ELSE IF v2 = None THEN Err("InvalidChar")
       ELSE LET x == TripleValue(v0[1], v1[1], v2[1])
            IN IF x > 65535 THEN Err("Overflow")
               ELSE Ok(<<AsU8(x % 256), AsU8(x \div 256)>>)

\* decode_triple rejecting the value 65535 (x >= 65535)
decode_triple_ge(bytes, i) ==
    LET v0 == b45_val(bytes[i + 1])
        v1 == b45_val(bytes[i + 2])
        v2 == b45_val(bytes[i + 3])
    IN IF v0 = None THEN Err("InvalidChar")
       ELSE IF v1 = None THEN Err("InvalidChar")
       ELSE IF v2 = None THEN Err("InvalidChar")
       ELSE LET x == TripleValue(v0[1], v1[1], v2[1])
            IN IF x >= 65535 THEN Err("Overflow")
               ELSE Ok(<<AsU8(x \div 256), AsU8(x % 256)>>)

\* the value of an Option, 0 for None (unwrap_or(0))
UnwrapOr0(o) == IF o = None THEN 0 ELSE o[1]

\* decode_triple checking the range before the characters
decode_triple_range_first(bytes, i) ==
    LET v0 == b45_val(bytes[i + 1])
        v1 == b45_val(bytes[i + 2])
        v2 == b45_val(bytes[i + 3])
        x == TripleValue(UnwrapOr0(v0), UnwrapOr0(v1), UnwrapOr0(v2))
    IN IF x > 65535 THEN Err("Overflow")
       ELSE IF v0 = None \/ v1 = None \/ v2 = None THEN Err("InvalidChar")
       ELSE Ok(<<AsU8(x \div 256), AsU8(x % 256)>>)

\* one pass of the while loop on bytes[i..i+3]: the two bytes, or the error
decode_triple(bytes, i) ==
    LET v0 == b45_val(bytes[i + 1])
        v1 == b45_val(bytes[i + 2])
        v2 == b45_val(bytes[i + 3])
    IN IF v0 = None THEN Err("InvalidChar")
       ELSE IF v1 = None THEN Err("InvalidChar")
       ELSE IF v2 = None THEN Err("InvalidChar")
       ELSE LET x == TripleValue(v0[1], v1[1], v2[1])
            IN IF x > 65535 THEN Err("Overflow")
               ELSE Ok(<<AsU8(x \div 256), AsU8(x % 256)>>)

RECURSIVE decode_loop(_, _, _)
\* the while loop of decode; yields Ok(<<i, out>>) at its exit, or the error
decode_loop(bytes, i, out) ==
    IF i + 2 < Len(bytes)
    THEN LET g == decode_triple(bytes, i)
         IN IF g.tag = "Err" THEN g
            ELSE decode_loop(bytes, i + 3, out \o g.val)
    ELSE Ok(<<i, out>>)

\* decode_tail reporting Dangling before it looks at the character
decode_tail_dangling_first(bytes, i, out) ==
    IF i < Len(bytes)
    THEN IF i + 1 >= Len(bytes)
         THEN Err("Dangling")
         ELSE LET v0 == b45_val(bytes[i + 1])
                  v1 == b45_val(bytes[i + 2])
              IN IF v0 = None THEN Err("InvalidChar")
                 ELSE IF v1 = None THEN Err("InvalidChar")
                 ELSE LET x == TailValue(v0[1], v1[1])
                      IN IF x > 255 THEN Err("Overflow")
                         ELSE Ok(Append(out, AsU8(x)))
    ELSE Ok(out)

\* decode_tail without the range check of the final pair
decode_tail_unchecked(bytes, i, out) ==
    IF i < Len(bytes)
    THEN IF i + 1 >= Len(bytes)
         THEN IF b45_val(bytes[i + 1]) = None
              THEN Err("InvalidChar")
              ELSE Err("Dangling")
         ELSE LET v0 == b45_val(bytes[i + 1])
                  v1 == b45_val(bytes[i + 2])
              IN IF v0 = None THEN Err("InvalidChar")
                 ELSE IF v1 = None THEN Err("InvalidChar")
                 ELSE LET x == TailValue(v0[1], v1[1])
                      IN Ok(Append(out, AsU8(x)))
    ELSE Ok(out)

\* the remainder after the loop: `if i < bytes.len() { ... } Ok(out)`
decode_tail(bytes, i, out) ==
    IF i < Len(bytes)
    THEN IF i + 1 >= Len(bytes)
         THEN IF b45_val(bytes[i + 1]) = None
              THEN Err("InvalidChar")
              ELSE Err("Dangling")
         ELSE LET v0 == b45_val(bytes[i + 1])
                  v1 == b45_val(bytes[i + 2])
              IN IF v0 = None THEN Err("InvalidChar")
                 ELSE IF v1 = None THEN Err("InvalidChar")
                 ELSE LET x == TailValue(v0[1], v1[1])
                      IN IF x > 255 THEN Err("Overflow")
                         ELSE Ok(Append(out, AsU8(x)))
    ELSE Ok(out)

\* decode validating every character before it decodes any group
decode_validate_first(t) ==
    LET bytes == as_bytes(t)
        r == decode_loop(bytes, 0, <<>>)
    IN IF \E j \in 1 .. Len(bytes) : b45_val(bytes[j]) = None
       THEN Err("InvalidChar")
       ELSE IF r.tag = "Err" THEN r
       ELSE decode_tail(bytes, r.val[1], r.val[2])


decode(t) ==
    LET bytes == as_bytes(t)
        r == decode_loop(bytes, 0, <<>>)
    IN IF r.tag = "Err" THEN r
       ELSE decode_tail(bytes, r.val[1], r.val[2])

(***************************************************************************)
(* Inputs.                                                                 *)
(***************************************************************************)
Byte == 0 .. 255

\* bytes of the sampled longer inputs: 0x00, 0x01, 'A', 0xFF
ByteSample == {0, 1, 65, 255}

\* the cases of tests::roundtrips and the inputs of tests::known_vectors
TestBytes ==
    { <<>>, <<65>>, <<65, 66>>,
      <<72, 101, 108, 108, 111, 44, 32, 119, 111, 114, 108, 100, 33>>,
      <<0>>, <<0, 1, 255, 128, 127>>,
      <<0, 0>>,
      <<72, 101, 108, 108, 111, 33, 33>>,
      <<98, 97, 115, 101, 45, 52, 53>>,
      <<105, 101, 116, 102, 33>> }

\* every input of at most one byte group, sampled longer ones, the tests' inputs
ByteInputs ==
    {<<>>} \cup [1 .. 1 -> Byte] \cup [1 .. 2 -> Byte]
    \cup UNION {[1 .. n -> ByteSample] : n \in 3 .. MaxBytes}
    \cup TestBytes

\* a two-byte and a four-byte character: U+00E9, U+1F600
EAcute == <<195, 169>>

Emoji == <<240, 159, 152, 128>>

AsciiChars == {<<c>> : c \in 0 .. 127}

AlphabetChars == {<<BASE45_ALPHABET[k]>> : k \in 1 .. 45}

\* characters outside the alphabet: tab, ';', '@', 'a', U+00E9, U+1F600
BadChars == {<<9>>, <<59>>, <<64>>, <<97>>, EAcute, Emoji}

\* characters of the sampled longer texts: '0', 'B', ':', tab
CharSample == {<<48>>, <<66>>, <<58>>, <<9>>}

\* the texts of tests::known_vectors and tests::errors
TestTexts ==
    { <<<<66>>, <<66>>, <<56>>>>,
      <<<<81>>, <<69>>, <<68>>, <<56>>, <<87>>, <<69>>, <<88>>, <<48>>>>,
      <<<<9>>>>, <<<<10>>>>,
      <<<<58>>, <<58>>, <<58>>>>,
      <<<<90>>, <<90>>>>,
      <<<<65>>>>,
      <<Emoji>> }

\* every text of one character, every text of at most three characters over the
\* alphabet and BadChars, sampled longer ones, the tests' texts
Texts ==
    {<<>>} \cup [1 .. 1 -> AsciiChars \cup {EAcute, Emoji}]
    \cup [1 .. 2 -> AlphabetChars \cup BadChars]
    \cup [1 .. 3 -> AlphabetChars \cup BadChars]
    \cup UNION {[1 .. n -> CharSample] : n \in 4 .. MaxChars}
    \cup TestTexts

(***************************************************************************)
(* The callers.  "roundtrip" is the loop body of tests::roundtrips:        *)
(* encode the case, then decode the text encode returned.  "decode" hands  *)
(* a text to decode and, when decode succeeds, the bytes back to encode.   *)
(* "lookup" is one evaluation of b45_val on a byte.                        *)
(***************************************************************************)
NoResult == [tag |-> "None"]

Init ==
    /\ encoded = <<>>
    /\ decoded = NoResult
    /\ val = None
    /\ \/ /\ caller = "roundtrip"
          /\ input \in ByteInputs
          /\ s = <<>>
          /\ lookup_ch = 0
          /\ pc = "encode"
       \/ /\ caller = "decode"
          /\ s \in Texts
          /\ input = <<>>
          /\ lookup_ch = 0
          /\ pc = "decode"
       \/ /\ caller = "lookup"
          /\ lookup_ch \in Byte
          /\ input = <<>>
          /\ s = <<>>
          /\ pc = "b45_val"

\* a call of encode(input)
Encode ==
    /\ pc = "encode"
    /\ encoded' = encode(input)
    /\ IF caller = "roundtrip"
       THEN s' = encoded' /\ pc' = "decode"
       ELSE s' = s /\ pc' = "done"
    /\ UNCHANGED <<caller, input, decoded, lookup_ch, val>>

\* a call of decode(s)
Decode ==
    /\ pc = "decode"
    /\ decoded' = decode(s)
    /\ IF caller = "decode" /\ decoded'.tag = "Ok"
       THEN input' = decoded'.val /\ pc' = "encode"
       ELSE input' = input /\ pc' = "done"
    /\ UNCHANGED <<caller, encoded, s, lookup_ch, val>>

\* a call of b45_val(lookup_ch)
Lookup ==
    /\ pc = "b45_val"
    /\ val' = b45_val(lookup_ch)
    /\ pc' = "done"
    /\ UNCHANGED <<caller, input, encoded, s, decoded, lookup_ch>>

Next == Encode \/ Decode \/ Lookup

Spec == Init /\ [][Next]_vars

(***************************************************************************)
(* What the properties below are stated with: the calls that have          *)
(* returned, and the arithmetic of RFC 9285 over the integers.             *)
(***************************************************************************)
\* encode(input) has returned `encoded`
EncodeReturned ==
    \/ caller = "roundtrip" /\ pc \in {"decode", "done"}
    \/ caller = "decode" /\ pc = "done" /\ decoded.tag = "Ok"

\* decode(s) has returned `decoded`
DecodeReturned == decoded.tag # "None"

InAlphabet(c) == \E k \in 1 .. 45 : BASE45_ALPHABET[k] = c

IndexOf(c) == CHOOSE k \in 0 .. 44 : BASE45_ALPHABET[k + 1] = c

\* the text of one-byte characters with the given codes
AsciiText(codes) == [j \in 1 .. Len(codes) |-> <<codes[j]>>]

\* the j-th character RFC 9285 gives for the bytes b, j counted from 1
RefChar(b, j) ==
    LET k == (j - 1) \div 3
        pos == (j - 1) % 3
        x == IF 2 * k + 2 <= Len(b)
             THEN b[2 * k + 1] * 256 + b[2 * k + 2]
             ELSE b[2 * k + 1]
        digit == CASE pos = 0 -> x % 45
                   [] pos = 1 -> (x \div 45) % 45
                   [] pos = 2 -> x \div 2025
    IN <<BASE45_ALPHABET[digit + 1]>>

(***************************************************************************)
(* C1  Round trip: decoding the text encode returned for the bytes b       *)
(* succeeds with exactly b, for every b, and so with none of the errors.   *)
(***************************************************************************)
C1_RoundTrip ==
    (caller = "roundtrip" /\ pc = "done") => decoded = Ok(input)

\* the round trip of the odd-length case [0x00, 0x01, 0xFF, 0x80, 0x7F]
C1_Witness ==
    /\ caller = "roundtrip"
    /\ pc = "done"
    /\ input = <<0, 1, 255, 128, 127>>
    /\ decoded = Ok(<<0, 1, 255, 128, 127>>)

(***************************************************************************)
(* C2  Length law: encode returns ceil(3 * n / 2) characters for n bytes:  *)
(* three for each byte pair, two for a trailing single byte, none for the  *)
(* empty input.                                                            *)
(***************************************************************************)
C2_LengthLaw ==
    EncodeReturned =>
        /\ Len(encoded) = (3 * Len(input) + 1) \div 2
        /\ Len(encoded) = 3 * (Len(input) \div 2) + 2 * (Len(input) % 2)
        /\ Len(as_bytes(encoded)) = Len(encoded)

\* five bytes have been encoded into eight characters
C2_Witness ==
    /\ EncodeReturned
    /\ Len(input) = 5
    /\ Len(encoded) = 8

(***************************************************************************)
(* C3  encode is the RFC 9285 reference: byte pairs left to right and at   *)
(* most one final single byte; a pair with x = hi * 256 + lo gives the     *)
(* alphabet characters at x mod 45, (x div 45) mod 45, x div 2025, a       *)
(* single byte u those at u mod 45, u div 45; and the known vectors.       *)
(***************************************************************************)
C3_EncodeIsReference ==
    EncodeReturned =>
        /\ DOMAIN encoded = 1 .. ((3 * Len(input) + 1) \div 2)
        /\ \A j \in DOMAIN encoded : encoded[j] = RefChar(input, j)
        /\ input = <<0, 0>> => encoded = AsciiText(<<48, 48, 48>>)
        /\ input = <<65, 66>> => encoded = AsciiText(<<66, 66, 56>>)
        /\ input = <<72, 101, 108, 108, 111, 33, 33>>
              => encoded = AsciiText(<<37, 54, 57, 32, 86, 68, 57, 50, 69, 88, 48>>)
        /\ input = <<98, 97, 115, 101, 45, 52, 53>>
              => encoded = AsciiText(<<85, 74, 67, 76, 81, 69, 55, 87, 53, 56, 49>>)
        /\ input = <<105, 101, 116, 102, 33>>
              => encoded = AsciiText(<<81, 69, 68, 56, 87, 69, 88, 48>>)

\* "Hello!!" has been encoded as "%69 VD92EX0"
C3_Witness ==
    /\ EncodeReturned
    /\ input = <<72, 101, 108, 108, 111, 33, 33>>
    /\ encoded = AsciiText(<<37, 54, 57, 32, 86, 68, 57, 50, 69, 88, 48>>)

(***************************************************************************)
(* C4  The table and the lookup are inverses: the 45 entries of            *)
(* BASE45_ALPHABET are pairwise distinct, b45_val gives i for the entry at *)
(* index i, and gives None for each of the 211 bytes not in the table.     *)
(***************************************************************************)
C4_AlphabetInverse ==
    (caller = "lookup" /\ pc = "done") =>
        /\ Len(BASE45_ALPHABET) = 45
        /\ \A i, j \in 1 .. 45 :
              (BASE45_ALPHABET[i] = lookup_ch /\ BASE45_ALPHABET[j] = lookup_ch)
                  => i = j
        /\ \A i \in 0 .. 44 : BASE45_ALPHABET[i + 1] = lookup_ch => val = Some(i)
        /\ ~InAlphabet(lookup_ch) => val = None
        /\ Cardinality({c \in Byte : ~InAlphabet(c)}) = 211

\* the lookup of a tab has returned None
C4_Witness ==
    /\ caller = "lookup"
    /\ pc = "done"
    /\ lookup_ch = 9
    /\ val = None

(***************************************************************************)
(* The character groups of the bytes B of a text, over the integers:       *)
(* triple k (from 0) is B[3k+1 .. 3k+3]; what is left after the triples is *)
(* the tail, of Len(B) % 3 characters.                                     *)
(***************************************************************************)
NTriples(B) == Len(B) \div 3

TripleInAlphabet(B, k) == \A j \in 1 .. 3 : InAlphabet(B[3 * k + j])

TripleMath(B, k) ==
    IndexOf(B[3 * k + 1]) + 45 * IndexOf(B[3 * k + 2])
        + 2025 * IndexOf(B[3 * k + 3])

TripleFine(B, k) == TripleInAlphabet(B, k) /\ TripleMath(B, k) <= 65535

\* every triple before triple k is in the alphabet and in range
PrefixFine(B, k) == \A j \in 0 .. (k - 1) : TripleFine(B, j)

TailInAlphabet(B) == \A j \in (3 * NTriples(B) + 1) .. Len(B) : InAlphabet(B[j])

\* the value of a tail of two alphabet characters
TailMath(B) == IndexOf(B[Len(B) - 1]) + 45 * IndexOf(B[Len(B)])

(***************************************************************************)
(* C5  Single leftover character: when the length is 1 modulo 3 and every  *)
(* preceding triple decodes without error, decode fails with InvalidChar   *)
(* if the last character is not in the alphabet and with Dangling if it    *)
(* is; it never succeeds.                                                  *)
(***************************************************************************)
C5_SingleLeftover ==
    LET B == as_bytes(s)
    IN (DecodeReturned /\ Len(B) % 3 = 1 /\ PrefixFine(B, NTriples(B))) =>
          /\ decoded.tag = "Err"
          /\ ~InAlphabet(B[Len(B)]) => decoded = Err("InvalidChar")
          /\ InAlphabet(B[Len(B)]) => decoded = Err("Dangling")

\* decode("BB0B"): a valid triple, then one valid character
C5_Witness ==
    /\ s = AsciiText(<<66, 66, 48, 66>>)
    /\ decoded = Err("Dangling")

(***************************************************************************)
(* C6  Overflow thresholds are exact.  A triple of alphabet characters     *)
(* that decode reaches, of value x = c2 * 2025 + c1 * 45 + c0, fails with  *)
(* Overflow if x > 65535, and otherwise is accepted and gives the bytes    *)
(* x div 256, x mod 256; a final pair of alphabet characters of value      *)
(* x = c1 * 45 + c0 fails with Overflow if x > 255 and otherwise gives the *)
(* byte x.  65535 and 255 are accepted, 65536 and 256 rejected.            *)
(***************************************************************************)
C6_OverflowExact ==
    LET B == as_bytes(s)
        n == NTriples(B)
    IN DecodeReturned =>
          /\ \A k \in 0 .. (n - 1) :
                (PrefixFine(B, k) /\ TripleInAlphabet(B, k)) =>
                   LET x == TripleMath(B, k)
                   IN /\ x > 65535 => decoded = Err("Overflow")
                      /\ (x <= 65535 /\ Len(B) = 3 * k + 3) => decoded.tag = "Ok"
                      /\ (x <= 65535 /\ decoded.tag = "Ok") =>
                            /\ decoded.val[2 * k + 1] = x \div 256
                            /\ decoded.val[2 * k + 2] = x % 256
          /\ (Len(B) % 3 = 2 /\ PrefixFine(B, n) /\ TailInAlphabet(B)) =>
                LET x == TailMath(B)
                IN /\ x > 255 => decoded = Err("Overflow")
                   /\ x <= 255 =>
                         /\ decoded.tag = "Ok"
                         /\ Len(decoded.val) = 2 * n + 1
                         /\ decoded.val[2 * n + 1] = x
          /\ s = AsciiText(<<70, 71, 87>>) => decoded = Ok(<<255, 255>>)
          /\ s = AsciiText(<<71, 71, 87>>) => decoded = Err("Overflow")
          /\ s = AsciiText(<<85, 53>>) => decoded = Ok(<<255>>)
          /\ s = AsciiText(<<86, 53>>) => decoded = Err("Overflow")
          /\ s = AsciiText(<<58, 58, 58>>) => decoded = Err("Overflow")
          /\ s = AsciiText(<<90, 90>>) => decoded = Err("Overflow")

\* decode("GGW"): the triple of value 65536 is rejected
C6_Witness ==
    /\ s = AsciiText(<<71, 71, 87>>)
    /\ TripleMath(as_bytes(s), 0) = 65536
    /\ decoded = Err("Overflow")

(***************************************************************************)
(* C7  Validity before range and structure: at the group where decode      *)
(* stops (a triple, the final pair or the single leftover), a character    *)
(* outside the alphabet gives InvalidChar, whatever the other characters   *)
(* of the group are and even when the group is incomplete.                 *)
(***************************************************************************)
C7_InvalidCharFirst ==
    LET B == as_bytes(s)
        n == NTriples(B)
    IN DecodeReturned =>
          /\ \A k \in 0 .. (n - 1) :
                (PrefixFine(B, k) /\ ~TripleInAlphabet(B, k))
                    => decoded = Err("InvalidChar")
          /\ (PrefixFine(B, n) /\ ~TailInAlphabet(B))
                => decoded = Err("InvalidChar")

\* decode("::" then a tab)
C7_Witness ==
    /\ s = AsciiText(<<58, 58, 9>>)
    /\ decoded = Err("InvalidChar")

(***************************************************************************)
(* C8  No intermediate arithmetic wraps.  What encode and decode compute   *)
(* in 16 and 32 bits are the values over the integers.  C8_Body(msd) is    *)
(* the statement with msd as the bound on a pair's most significant digit. *)
(***************************************************************************)
C8_Body(msd) ==
    LET B == as_bytes(s)
        n == NTriples(B)
    IN /\ EncodeReturned =>
             /\ \A k \in 0 .. ((Len(input) \div 2) - 1) :
                   LET hi == input[2 * k + 1]
                       lo == input[2 * k + 2]
                       d == PairDigits(hi, lo)
                   IN /\ PairValue(hi, lo) = hi * 256 + lo
                      /\ PairValue(hi, lo) <= 65535
                      /\ d[1] <= 44 /\ d[2] <= 44 /\ d[3] <= 44
                      /\ d[3] <= msd
                      /\ d[1] + 45 * d[2] + 2025 * d[3] = hi * 256 + lo
             /\ Len(input) % 2 = 1 =>
                   LET u == input[Len(input)]
                       d == ByteDigits(u)
                   IN /\ d[1] <= 44 /\ d[2] <= 5
                      /\ d[1] + 45 * d[2] = u
       /\ DecodeReturned =>
             /\ \A k \in 0 .. (n - 1) :
                   (PrefixFine(B, k) /\ TripleInAlphabet(B, k)) =>
                      LET x == TripleValue(b45_val(B[3 * k + 1])[1],
                                           b45_val(B[3 * k + 2])[1],
                                           b45_val(B[3 * k + 3])[1])
                      IN /\ x = TripleMath(B, k)
                         /\ x <= 91124
                         /\ decoded.tag = "Ok" =>
                               /\ decoded.val[2 * k + 1] = TripleMath(B, k) \div 256
                               /\ decoded.val[2 * k + 2] = TripleMath(B, k) % 256
             /\ (Len(B) % 3 = 2 /\ PrefixFine(B, n) /\ TailInAlphabet(B)) =>
                   LET x == TailValue(b45_val(B[Len(B) - 1])[1],
                                      b45_val(B[Len(B)])[1])
                   IN /\ x = TailMath(B)
                      /\ x <= 2024
                      /\ decoded.tag = "Ok" => decoded.val[2 * n + 1] = TailMath(B)

C9_Canonical ==
    LET n == Len(as_bytes(s))
    IN /\ (DecodeReturned /\ decoded.tag = "Ok") =>
             /\ Len(s) = n
             /\ n % 3 \in {0, 2}
             /\ Len(decoded.val) = 2 * (n \div 3) + ((n % 3) \div 2)
       /\ (caller = "decode" /\ pc = "done" /\ decoded.tag = "Ok") =>
             encoded = s

\* decode("BB0B0") succeeded and its bytes have been encoded again
C9_Witness ==
    /\ caller = "decode"
    /\ pc = "done"
    /\ s = AsciiText(<<66, 66, 48, 66, 48>>)
    /\ decoded = Ok(<<1, 250, 11>>)
    /\ encoded = s

(***************************************************************************)
(* C10  Leftmost failure wins: the error is that of the first group that   *)
(* fails, whatever follows it (an overflowing triple followed by a         *)
(* character outside the alphabet gives Overflow); Dangling is returned    *)
(* only when the length is 1 modulo 3 and every triple is valid and in     *)
(* range; a failure returns one of the three errors and no bytes.          *)
(***************************************************************************)
C10_LeftmostFailure ==
    LET B == as_bytes(s)
        n == NTriples(B)
    IN DecodeReturned =>
          /\ \A k \in 0 .. (n - 1) :
                (PrefixFine(B, k) /\ ~TripleFine(B, k)) =>
                    decoded = Err(IF TripleInAlphabet(B, k)
                                  THEN "Overflow" ELSE "InvalidChar")
          /\ decoded = Err("Dangling") => (Len(B) % 3 = 1 /\ PrefixFine(B, n))
          /\ decoded.tag = "Err" =>
                /\ DOMAIN decoded = {"tag", "err"}
                /\ decoded.err \in Base45Error
          /\ decoded.tag = "Ok" => (PrefixFine(B, n) /\ TailInAlphabet(B))

\* decode(":::" then a tab): the overflow is reported, the tab never looked at
C10_Witness ==
    /\ s = AsciiText(<<58, 58, 58, 9>>)
    /\ decoded = Err("Overflow")

====
